---- MODULE Spec2Model ----
(***************************************************************************)
(* Model of the httpcalls request pipeline (src/src/lib.rs):               *)
(* RequestBuilder::send, execute_request and make_request, the events      *)
(* they emit to the StoreDispatcher, and the retry loop with its backoff.  *)
(*                                                                         *)
(* One send() is one logical task.  It yields only at its await points:    *)
(* the backoff timer (TimeoutFuture), request.send() and response.text().  *)
(* Every action below is the code that runs between two await points.      *)
(***************************************************************************)
EXTENDS Integers, Sequences, FiniteSets, TLC

VARIABLES
    config,           \* RequestConfig plus whether a dispatcher is attached
    pc,               \* "idle" | "built" | "delay" | "sending" | "reading" | "done"
                      \* | "panicked"
    attempt,          \* loop variable of `for attempt in 0..=retry_count`
    last_error,       \* Option<HttpError> local of send()
    result,           \* Option<Result<HttpResponse, HttpError>> returned by send()
    events,           \* AppActions emitted to the dispatcher, in order
    delays,           \* backoff timers created, in order
    transport_calls,  \* number of request.send() invocations
    transport_log,    \* outcome of every completed transport call, in order
    attempt_results,  \* result of every execute_request() call, in order
    inflight,         \* status and url of the response whose body is being read
    requests,         \* the requests handed to request.send(), in order
    debug_build,      \* build profile: debug_assertions and overflow checks on
    client,           \* the HttpClient
    builder,          \* Option<RequestBuilder>: the builder of the chain
    requested,        \* method and path the builder was requested with
    last_call,        \* the last builder method called, with its arguments
    calls,            \* the builder methods called on the chain, in order
    running,          \* which of two send() calls the variables above belong to
    suspended,        \* Option: the locals of the other send(), waiting at an await
    sink              \* the events the shared dispatcher received, with their call

sendVars == <<config, pc, attempt, last_error, result, events, delays,
              transport_calls, transport_log, attempt_results, inflight, requests>>

builderVars == <<client, builder, requested, last_call, calls>>

pairVars == <<running, suspended, sink>>

vars == <<sendVars, debug_build, builderVars, pairVars>>

---------------------------------------------------------------------------
(* Bounds of the model *)

MaxRetry == 2
MaxDelay == 2

(* Inputs *)
Statuses == {199, 200, 299, 300, 400, 499, 500}
Bodies == {"", "payload"}
RequestUrl == "https://a.test/users"
Urls == {"", RequestUrl}
ResponseUrls == {RequestUrl}
RetryDelays == (MaxDelay - 1)..MaxDelay

---------------------------------------------------------------------------
(* Option and Result values *)

NoneVal == [some |-> FALSE]
Some(v) == [some |-> TRUE, value |-> v]
Ok(r) == [ok |-> TRUE, value |-> r]
Err(e) == [ok |-> FALSE, error |-> e]

CallNames == {NoneVal, Some("create_user")}

(* HttpError variants *)
Network(m) == [kind |-> "Network", message |-> m]
InvalidUrl(u) == [kind |-> "InvalidUrl", url |-> u]
Http(s, m, b) == [kind |-> "Http", status |-> s, message |-> m, body |-> b]

(* thiserror Display of an HttpError *)
Display(e) ==
    CASE e.kind = "Network" -> "Network error: " \o e.message
      [] e.kind = "Timeout" -> "Request timeout"
      [] e.kind = "InvalidUrl" -> "Invalid URL: " \o e.url
      [] e.kind = "Serialization" -> "Serialization error: " \o e.message
      [] e.kind = "Http" -> "HTTP " \o ToString(e.status) \o ": " \o e.message
      [] e.kind = "Cancelled" -> "Cancelled by user"
      [] e.kind = "InvalidResponse" -> "Invalid response format"
      [] e.kind = "Configuration" -> "Configuration error: " \o e.message

(* is_success with the bounds slipped: 200 excluded / 300 included *)
is_success_above200(status) == status > 200 /\ status < 300
is_success_upto300(status) == status >= 200 /\ status <= 300

(* HttpResponse::is_success *)
is_success(status) == status >= 200 /\ status < 300

(* AppAction values; progress is kept in tenths (0.0, 0.5, 1.0) *)
EnableLoader == [type |-> "EnableLoader"]
DisableLoader == [type |-> "DisableLoader"]
UpdateProgress(tenths) == [type |-> "UpdateProgress", value |-> tenths]
ShowNotification(m) == [type |-> "ShowNotification", message |-> m]

(* The dispatcher is shared by the calls that were built with it: each    *)
(* dispatch.emit() of a step adds its event to what the store received.   *)
(* `before` and `after` are the events of the emitting call around the    *)
(* step.                                                                  *)
Deliver(received, call, before, after) ==
    received \o [i \in 1..(Len(after) - Len(before)) |->
                    [call |-> call, event |-> after[Len(before) + i]]]

(* a single send(): no other call is suspended *)
OneCall == running = 1 /\ suspended = NoneVal /\ sink = <<>>

(* an emit that notifies whenever a sink is attached, whatever the flag *)
Emit_WhateverFlag(cfg, flag, ev, a) == IF cfg.has_dispatch THEN Append(ev, a) ELSE ev
(* dispatch.emit(a) guarded by a flag and by `if let Some(ref dispatch)` *)
Emit(cfg, flag, ev, a) == IF flag /\ cfg.has_dispatch THEN Append(ev, a) ELSE ev

---------------------------------------------------------------------------
(* execute_request, before make_request: loader on, progress reset *)
ExecuteBegin(cfg, ev) ==
    LET ev1 == Emit(cfg, cfg.with_loader, ev, EnableLoader)
    IN  Emit(cfg, cfg.with_progress, ev1, UpdateProgress(0))

(* make_request: progress update right before request.send() *)
MakeRequestProgress(cfg, ev) == Emit(cfg, cfg.with_progress, ev, UpdateProgress(5))

(* a make_request that reports an empty body as an invalid response *)
ClassifyResponse_EmptyBodyInvalid(cfg, status, url, body) ==
    LET http_response == [status |-> status, headers |-> <<>>, body |-> body,
                          url |-> url, call_name |-> cfg.call_name]
    IN  IF body = ""
        THEN Err([kind |-> "InvalidResponse", message |-> "empty body"])
        ELSE IF ~is_success(http_response.status)
             THEN Err(Http(status, "HTTP error " \o ToString(status),
                           Some(http_response.body)))
             ELSE Ok(http_response)
(* make_request: wrap status and body, turn a non-2xx status into an error *)
ClassifyResponse(cfg, status, url, body) ==
    LET http_response == [status |-> status, headers |-> <<>>, body |-> body,
                          url |-> url, call_name |-> cfg.call_name]
    IN  IF ~is_success(http_response.status)
        THEN Err(Http(status, "HTTP error " \o ToString(status),
                      Some(http_response.body)))
        ELSE Ok(http_response)

(* an execute_request that notifies of successes only *)
ExecuteFinish_SilentOnError(cfg, ev, res) ==
    LET ev1 == IF res.ok
               THEN LET m == "Request completed successfully ("
                                 \o ToString(res.value.status) \o ")"
                        n == Emit(cfg, cfg.with_notifications, ev, ShowNotification(m))
                    IN  Emit(cfg, cfg.with_progress, n, UpdateProgress(10))
               ELSE ev
    IN  Emit(cfg, cfg.with_loader, ev1, DisableLoader)

(* an execute_request that returns a failure without its trailing events *)
ExecuteFinish_ErrorLeavesEarly(cfg, ev, res) ==
    IF res.ok
    THEN LET m == "Request completed successfully ("
                      \o ToString(res.value.status) \o ")"
             n == Emit(cfg, cfg.with_notifications, ev, ShowNotification(m))
             p == Emit(cfg, cfg.with_progress, n, UpdateProgress(10))
         IN  Emit(cfg, cfg.with_loader, p, DisableLoader)
    ELSE ev

(* an execute_request that leaves the loader on when the URL is rejected *)
ExecuteFinish_InvalidUrlKeepsLoader(cfg, ev, res) ==
    LET ev1 == IF res.ok
               THEN LET m == "Request completed successfully ("
                                 \o ToString(res.value.status) \o ")"
                        n == Emit(cfg, cfg.with_notifications, ev, ShowNotification(m))
                    IN  Emit(cfg, cfg.with_progress, n, UpdateProgress(10))
               ELSE Emit(cfg, cfg.with_notifications, ev,
                         ShowNotification("Request failed: " \o Display(res.error)))
    IN  IF ~res.ok /\ res.error.kind = "InvalidUrl"
        THEN ev1
        ELSE Emit(cfg, cfg.with_loader, ev1, DisableLoader)
(* execute_request, after make_request: notification, progress, loader off *)
ExecuteFinish(cfg, ev, res) ==
    LET ev1 == IF res.ok
               THEN LET m == IF is_success(res.value.status)
                             THEN "Request completed successfully ("
                                      \o ToString(res.value.status) \o ")"
                             ELSE "Request failed with status "
                                      \o ToString(res.value.status)
                        n == Emit(cfg, cfg.with_notifications, ev, ShowNotification(m))
                    IN  Emit(cfg, cfg.with_progress, n, UpdateProgress(10))
               ELSE Emit(cfg, cfg.with_notifications, ev,
                         ShowNotification("Request failed: " \o Display(res.error)))
    IN  Emit(cfg, cfg.with_loader, ev1, DisableLoader)

---------------------------------------------------------------------------
(* RequestConfig, RequestBuilder and its setters *)

DefaultTimeoutMs == 30000
DefaultRetryDelayMs == 1000
ReleaseGetRetryCount == 2
ReleaseGetRetryDelayMs == 1000

Methods == {"Get", "Post", "Put", "Delete", "Patch", "Head", "Options"}

(* HashMap<String, String>: a function from the names present to values *)
EmptyHeaders == [k \in {} |-> ""]
HeaderInsert(h, name, value) ==
    [k \in (DOMAIN h) \cup {name} |-> IF k = name THEN value ELSE h[k]]
(* an extend in which the entries already present win *)
HeaderExtend_KeepExisting(h, other) ==
    [k \in (DOMAIN h) \cup (DOMAIN other) |->
        IF k \in DOMAIN h THEN h[k] ELSE other[k]]
(* HashMap::extend *)
HeaderExtend(h, other) ==
    [k \in (DOMAIN h) \cup (DOMAIN other) |->
        IF k \in DOMAIN other THEN other[k] ELSE h[k]]
(* HashMap::get, the read the tests make on builder.config.headers *)
HeaderGet(h, name) == IF name \in DOMAIN h THEN Some(h[name]) ELSE NoneVal

(* RequestBody variants *)
BodyNone == [variant |-> "None"]
BodyText(t) == [variant |-> "Text", text |-> t]
BodyJson(t) == [variant |-> "Json", json |-> t]
BodyFormData(f) == [variant |-> "FormData", form |-> f]
BodyBinary(d) == [variant |-> "Binary", data |-> d]

Serialization(m) == [kind |-> "Serialization", message |-> m]

(* RequestConfig::default *)
DefaultConfig ==
    [method |-> "Get", url |-> <<>>, headers |-> EmptyHeaders, body |-> BodyNone,
     timeout_ms |-> Some(DefaultTimeoutMs),
     with_loader |-> FALSE, with_progress |-> FALSE, with_notifications |-> FALSE,
     call_name |-> NoneVal, retry_count |-> 0,
     retry_delay_ms |-> DefaultRetryDelayMs]

(* RequestBuilder::new *)
NewBuilder(method, url) ==
    [config |-> [DefaultConfig EXCEPT !.method = method, !.url = url],
     dispatch |-> FALSE]

(* RequestBuilder::with_dispatcher *)
with_dispatcher(b) == [b EXCEPT !.dispatch = TRUE]

(* RequestBuilder::header *)
header(b, name, value) ==
    [b EXCEPT !.config.headers = HeaderInsert(@, name, value)]

(* RequestBuilder::headers *)
headers(b, hs) == [b EXCEPT !.config.headers = HeaderExtend(@, hs)]

(* a text() that also declares the body as text/plain *)
text_SetsContentType(b, t) ==
    [b EXCEPT !.config.body = BodyText(t),
              !.config.headers = HeaderInsert(@, "Content-Type", "text/plain")]
(* a text() that keeps a body that is already set *)
text_KeepExisting(b, t) ==
    IF b.config.body = BodyNone THEN [b EXCEPT !.config.body = BodyText(t)] ELSE b

(* RequestBuilder::text *)
text(b, t) == [b EXCEPT !.config.body = BodyText(t)]

(* RequestBuilder::binary *)
binary(b, d) == [b EXCEPT !.config.body = BodyBinary(d)]

(* RequestBuilder::form_data *)
form_data(b, f) == [b EXCEPT !.config.body = BodyFormData(f)]

(* RequestBuilder::with_loader *)
with_loader(b, enabled) == [b EXCEPT !.config.with_loader = enabled]

(* a with_progress() that switches the loader as well *)
with_progress_AlsoLoader(b, enabled) ==
    [b EXCEPT !.config.with_progress = enabled, !.config.with_loader = enabled]

(* RequestBuilder::with_progress *)
with_progress(b, enabled) == [b EXCEPT !.config.with_progress = enabled]

(* RequestBuilder::with_notifications *)
with_notifications(b, enabled) == [b EXCEPT !.config.with_notifications = enabled]

(* RequestBuilder::call_name *)
call_name(b, name) == [b EXCEPT !.config.call_name = Some(name)]

(* RequestBuilder::timeout *)
timeout(b, ms) == [b EXCEPT !.config.timeout_ms = Some(ms)]

(* a no_timeout() that falls back to the default timeout *)
no_timeout_BackToDefault(b) == [b EXCEPT !.config.timeout_ms = Some(DefaultTimeoutMs)]

(* RequestBuilder::no_timeout *)
no_timeout(b) == [b EXCEPT !.config.timeout_ms = NoneVal]

(* RequestBuilder::retry *)
retry(b, count, delay_ms) ==
    [b EXCEPT !.config.retry_count = count, !.config.retry_delay_ms = delay_ms]

---------------------------------------------------------------------------
(* send(): the retry loop *)

(* the match of send() without its arm for client errors *)
IsNonRetryable_NoHttpArm(e) ==
    e.kind \in {"Cancelled", "InvalidUrl", "Configuration"}

(* the match of send() with the client-error range starting after 400 *)
IsNonRetryable_Above400(e) ==
    \/ e.kind \in {"Cancelled", "InvalidUrl", "Configuration"}
    \/ (e.kind = "Http" /\ e.status > 400 /\ e.status < 500)

(* the match of send() with the client-error range left open above *)
IsNonRetryable_AllFrom400(e) ==
    \/ e.kind \in {"Cancelled", "InvalidUrl", "Configuration"}
    \/ (e.kind = "Http" /\ e.status >= 400)

(* the match of send() without InvalidUrl in its first arm *)
IsNonRetryable_NoInvalidUrlArm(e) ==
    \/ e.kind \in {"Cancelled", "Configuration"}
    \/ (e.kind = "Http" /\ e.status >= 400 /\ e.status < 500)

(* the match of send() with redirects counted among the client errors *)
IsNonRetryable_WithRedirects(e) ==
    \/ e.kind \in {"Cancelled", "InvalidUrl", "Configuration"}
    \/ (e.kind = "Http" /\ e.status >= 300 /\ e.status < 500)
(* the errors send() returns at once (the first two match arms) *)
IsNonRetryable(e) ==
    \/ e.kind \in {"Cancelled", "InvalidUrl", "Configuration"}
    \/ (e.kind = "Http" /\ e.status >= 400 /\ e.status < 500)

(* the loop over the exclusive range `0..retry_count` *)
HasNextAttempt_Exclusive(k, retry_count) == k + 1 < retry_count

(* a loop that runs one iteration past retry_count *)
HasNextAttempt_OneMore(k, retry_count) == k <= retry_count

(* `for attempt in 0..=retry_count`: is there an iteration after `k` *)
HasNextAttempt(k, retry_count) == k + 1 <= retry_count

(* the exponential backoff the crate documentation announces *)
BackoffDelay_Exponential(retry_delay_ms, k) == retry_delay_ms * (2 ^ k)

(* The range of a u32 delay.  Delays are counted in units of 2^16 ms, so   *)
(* that 2^32 ms is 2^16 units and the u32 product fits the checker's      *)
(* integers.                                                               *)
U32Range == 65536

(* does the u32 multiplication a * b leave the u32 range *)
MulOverflows(a, b) == a * b >= U32Range

(* `self.config.retry_delay_ms * attempt` as a build without overflow      *)
(* checks computes it: the product wraps around at the u32 range           *)
BackoffDelay(retry_delay_ms, k) == (retry_delay_ms * k) % U32Range

(* a loop that keeps the first error instead of the last *)
RecordError_KeepFirst(prev, e) == IF prev.some THEN prev ELSE Some(e)

(* a loop that never records the error of an attempt *)
RecordError_Never(prev, e) == prev
(* `last_error = Some(e.clone())` *)
RecordError(prev, e) == Some(e)

(* `last_error.unwrap_or(HttpError::Network { "Unknown error" })` *)
UnwrapLastError(le) == IF le.some THEN le.value ELSE Network("Unknown error")

(* The rest of one loop iteration once execute_request's result is known:    *)
(* the tail of execute_request, the match in send(), and either the return  *)
(* or the start of the next iteration up to its backoff timer.              *)
Complete(res, ev) ==
    /\ events' = ExecuteFinish(config, ev, res)
    /\ sink' = Deliver(sink, running, events, events')
    /\ attempt_results' = Append(attempt_results, res)
    /\ IF res.ok
       THEN /\ result' = Some(res)
            /\ pc' = "done"
            /\ UNCHANGED <<attempt, last_error, delays>>
       ELSE /\ last_error' = RecordError(last_error, res.error)
            /\ IF IsNonRetryable(res.error)
               THEN /\ result' = Some(Err(res.error))
                    /\ pc' = "done"
                    /\ UNCHANGED <<attempt, delays>>
               ELSE IF HasNextAttempt(attempt, config.retry_count)
               THEN /\ attempt' = attempt + 1
                    /\ IF debug_build /\ MulOverflows(config.retry_delay_ms, attempt + 1)
                       THEN \* overflow checks are on: the multiplication panics
                            /\ pc' = "panicked"
                            /\ UNCHANGED delays
                       ELSE /\ delays' = Append(delays,
                                   [before_attempt |-> attempt + 1,
                                    ms |-> BackoffDelay(config.retry_delay_ms,
                                                        attempt + 1)])
                            /\ pc' = "delay"
                    /\ UNCHANGED result
               ELSE /\ result' = Some(Err(UnwrapLastError(last_error')))
                    /\ pc' = "done"
                    /\ UNCHANGED <<attempt, delays>>

(* The outcome of the attempt that receives the first transport outcome of  *)
(* `log`: make_request from the URL check to the classified response.       *)
AttemptOutcome(cfg, log) ==
    IF cfg.url = "" THEN Err(InvalidUrl(cfg.url))
    ELSE LET t == Head(log)
         IN  IF ~t.sent
             THEN Err(Network("Request failed: TransportError"))
             ELSE IF ~t.read
             THEN Err(Network("Failed to read response body: TransportError"))
             ELSE ClassifyResponse(cfg, t.status, t.url, t.body)

(* send() as a function of the configuration and of the outcomes the       *)
(* transport gives to its calls, one per attempt with a non-empty URL:     *)
(* the loop from attempt `k` on with `le` the error recorded so far.       *)
(* It yields the number of transport calls, the backoff delays and the     *)
(* result (none when the outcomes run out or the backoff panics).          *)
RECURSIVE SendLoop(_, _, _, _, _)
SendLoop(cfg, debug, log, k, le) ==
    IF cfg.url # "" /\ log = <<>>
    THEN [transport_calls |-> 0, delays |-> <<>>, result |-> NoneVal]
    ELSE
    LET res == AttemptOutcome(cfg, log)
        used == IF cfg.url = "" THEN 0 ELSE 1
        rest == IF cfg.url = "" THEN log ELSE Tail(log)
        last == RecordError(le, res.error)
    IN  IF res.ok
        THEN [transport_calls |-> used, delays |-> <<>>, result |-> Some(res)]
        ELSE IF IsNonRetryable(res.error)
        THEN [transport_calls |-> used, delays |-> <<>>,
              result |-> Some(Err(res.error))]
        ELSE IF HasNextAttempt(k, cfg.retry_count)
        THEN IF debug /\ MulOverflows(cfg.retry_delay_ms, k + 1)
             THEN [transport_calls |-> used, delays |-> <<>>, result |-> NoneVal]
             ELSE LET later == SendLoop(cfg, debug, rest, k + 1, last)
                  IN  [transport_calls |-> used + later.transport_calls,
                       delays |-> <<[before_attempt |-> k + 1,
                                     ms |-> BackoffDelay(cfg.retry_delay_ms, k + 1)]>>
                                  \o later.delays,
                       result |-> later.result]
        ELSE [transport_calls |-> used, delays |-> <<>>,
              result |-> Some(Err(UnwrapLastError(last)))]

(* RequestBuilder::send on the transport outcomes `log` *)
SendOutcome(cfg, debug, log) == SendLoop(cfg, debug, log, 0, NoneVal)
(* a request built without the configured headers *)
TransportRequest_NoHeaders(cfg) ==
    [method |-> cfg.method, url |-> cfg.url, headers |-> EmptyHeaders,
     body |-> cfg.body]

(* make_request: the reqwasm Request as it is when request.send() is called: *)
(* method and URL, every configured header, the body                         *)
TransportRequest(cfg) ==
    [method |-> cfg.method, url |-> cfg.url, headers |-> cfg.headers,
     body |-> cfg.body]

(* execute_request from its first line to the first await of make_request;  *)
(* with an empty URL make_request returns before any await.                 *)
BeginAttempt ==
    LET ev1 == ExecuteBegin(config, events)
    IN  IF config.url = ""
        THEN /\ Complete(Err(InvalidUrl(config.url)), ev1)
             /\ UNCHANGED <<transport_calls, requests>>
        ELSE /\ events' = MakeRequestProgress(config, ev1)
             /\ sink' = Deliver(sink, running, events, events')
             /\ requests' = Append(requests, TransportRequest(config))
             /\ transport_calls' = transport_calls + 1
             /\ pc' = "sending"
             /\ UNCHANGED <<attempt, last_error, result, delays, attempt_results>>

(* send() is called: attempt 0 starts without a delay *)
Send ==
    /\ pc = "built"
    /\ BeginAttempt
    /\ UNCHANGED <<debug_build, builderVars, running, suspended, config, transport_log, inflight>>

(* the backoff timer fires: the next attempt starts *)
DelayElapsed ==
    /\ pc = "delay"
    /\ BeginAttempt
    /\ UNCHANGED <<debug_build, builderVars, running, suspended, config, transport_log, inflight>>

(* request.send().await fails *)
TransportSendFail ==
    /\ pc = "sending"
    /\ transport_log' = Append(transport_log, [sent |-> FALSE])
    /\ Complete(Err(Network("Request failed: TransportError")), events)
    /\ UNCHANGED <<debug_build, builderVars, running, suspended, config, transport_calls, inflight,
                   requests>>

(* request.send().await returns a response; its body is read next *)
TransportRespond ==
    /\ pc = "sending"
    /\ \E s \in Statuses, u \in ResponseUrls :
           inflight' = Some([status |-> s, url |-> u])
    /\ pc' = "reading"
    /\ UNCHANGED <<debug_build, builderVars, running, suspended, sink, config, attempt, last_error, result, events, delays,
                   transport_calls, transport_log, attempt_results, requests>>

(* response.text().await fails *)
BodyReadFail ==
    /\ pc = "reading"
    /\ transport_log' = Append(transport_log,
           [sent |-> TRUE, read |-> FALSE])
    /\ inflight' = NoneVal
    /\ Complete(Err(Network("Failed to read response body: TransportError")), events)
    /\ UNCHANGED <<debug_build, builderVars, running, suspended, config, transport_calls, requests>>

(* response.text().await returns the body: the response is classified *)
BodyRead ==
    /\ pc = "reading"
    /\ \E b \in Bodies :
         /\ transport_log' = Append(transport_log,
                [sent |-> TRUE, status |-> inflight.value.status, read |-> TRUE,
                 body |-> b, url |-> inflight.value.url])
         /\ Complete(ClassifyResponse(config, inflight.value.status,
                                      inflight.value.url, b), events)
    /\ inflight' = NoneVal
    /\ UNCHANGED <<debug_build, builderVars, running, suspended, config, transport_calls, requests>>

---------------------------------------------------------------------------
(* The builder as it stands when send() is called *)
Configs ==
    [url : Urls,
     with_loader : BOOLEAN, with_progress : BOOLEAN, with_notifications : BOOLEAN,
     has_dispatch : BOOLEAN,
     call_name : CallNames,
     retry_count : 0..MaxRetry,
     retry_delay_ms : RetryDelays,
     method : {"Get"}, headers : {EmptyHeaders}, body : {BodyNone},
     timeout_ms : {Some(DefaultTimeoutMs)}]

Init ==
    /\ config \in Configs
    /\ pc = "built"
    /\ attempt = 0
    /\ last_error = NoneVal
    /\ result = NoneVal
    /\ events = <<>>
    /\ delays = <<>>
    /\ transport_calls = 0
    /\ transport_log = <<>>
    /\ attempt_results = <<>>
    /\ inflight = NoneVal
    /\ requests = <<>>
    /\ OneCall
    /\ debug_build = TRUE
    /\ client = NoneVal
    /\ builder = NoneVal
    /\ requested = NoneVal
    /\ last_call = NoneVal
    /\ calls = <<>>

Next ==
    \/ Send
    \/ DelayElapsed
    \/ TransportSendFail
    \/ TransportRespond
    \/ BodyReadFail
    \/ BodyRead

Spec == Init /\ [][Next]_vars

(* The transport and every timer eventually complete: the one task of a    *)
(* send() is resumed whenever it is waiting on one of them.  The           *)
(* behaviours start from the builders with a dispatcher attached and no    *)
(* call name: neither is read by the retry loop.                           *)
FairInit == Init /\ config.has_dispatch /\ config.call_name = NoneVal
FairSpec == FairInit /\ [][Next]_vars /\ WF_vars(Next)

---------------------------------------------------------------------------
(* send() with delays near the end of the u32 range, in both builds *)

WideDelays == {MaxDelay, U32Range \div 3 + 1, U32Range \div 2, U32Range - 1}

WideInit ==
    /\ config \in [url : {RequestUrl}, with_loader : {FALSE}, with_progress : {FALSE},
                    with_notifications : BOOLEAN, has_dispatch : {TRUE},
                    call_name : {NoneVal},
                    retry_count : 0..MaxRetry, retry_delay_ms : WideDelays,
                    method : {"Get"}, headers : {EmptyHeaders}, body : {BodyNone},
                    timeout_ms : {Some(DefaultTimeoutMs)}]
    /\ pc = "built" /\ attempt = 0 /\ last_error = NoneVal /\ result = NoneVal
    /\ events = <<>> /\ delays = <<>> /\ transport_calls = 0
    /\ transport_log = <<>> /\ attempt_results = <<>> /\ inflight = NoneVal
    /\ requests = <<>>
    /\ OneCall
    /\ debug_build \in BOOLEAN
    /\ client = NoneVal /\ builder = NoneVal /\ requested = NoneVal
    /\ last_call = NoneVal /\ calls = <<>>

WideSpec == WideInit /\ [][Next]_vars

---------------------------------------------------------------------------
(* Two send() calls in flight at once.  Each send(self) owns its builder,  *)
(* its loop variable and its last_error; the calls meet in the dispatcher  *)
(* they were built with and in the transport.  The tasks run on one        *)
(* thread: between two await points one of them runs, and at an await the  *)
(* executor may go on with the other.                                      *)

(* the retry counts of the two calls *)
PairRetryCounts == {0, 1}

PairConfigs ==
    [url : Urls,
     with_loader : {FALSE}, with_progress : {FALSE}, with_notifications : {TRUE},
     has_dispatch : {TRUE},
     call_name : {NoneVal},
     retry_count : PairRetryCounts,
     retry_delay_ms : {MaxDelay},
     method : {"Get"}, headers : {EmptyHeaders}, body : {BodyNone},
     timeout_ms : {Some(DefaultTimeoutMs)}]

(* the builder and the locals of a send() that has not been polled yet *)
NewCall(cfg) ==
    [config |-> cfg, pc |-> "built", attempt |-> 0, last_error |-> NoneVal,
     result |-> NoneVal, events |-> <<>>, delays |-> <<>>,
     transport_calls |-> 0, transport_log |-> <<>>, attempt_results |-> <<>>,
     inflight |-> NoneVal, requests |-> <<>>]

(* the builder and the locals of the send() that is running *)
Locals ==
    [config |-> config, pc |-> pc, attempt |-> attempt,
     last_error |-> last_error, result |-> result, events |-> events,
     delays |-> delays, transport_calls |-> transport_calls,
     transport_log |-> transport_log, attempt_results |-> attempt_results,
     inflight |-> inflight, requests |-> requests]

(* a send() whose attempt counter is one cell shared by every call *)
Resume_SharedAttempt(saved, current) ==
    [saved EXCEPT !.attempt = current.attempt]

(* what a task finds when it is polled again: the state it left, since     *)
(* `self`, `attempt` and `last_error` belong to its own future             *)
Resume(saved, current) == saved

(* the running send() waits at an await and the executor polls the other *)
Switch ==
    /\ suspended.some
    /\ LET mine == Resume(suspended.value, Locals)
       IN  /\ config' = mine.config
           /\ pc' = mine.pc
           /\ attempt' = mine.attempt
           /\ last_error' = mine.last_error
           /\ result' = mine.result
           /\ events' = mine.events
           /\ delays' = mine.delays
           /\ transport_calls' = mine.transport_calls
           /\ transport_log' = mine.transport_log
           /\ attempt_results' = mine.attempt_results
           /\ inflight' = mine.inflight
           /\ requests' = mine.requests
    /\ suspended' = Some(Locals)
    /\ running' = 3 - running
    /\ UNCHANGED <<sink, debug_build, builderVars>>

PairInit ==
    /\ config \in PairConfigs
    /\ pc = "built" /\ attempt = 0 /\ last_error = NoneVal /\ result = NoneVal
    /\ events = <<>> /\ delays = <<>> /\ transport_calls = 0
    /\ transport_log = <<>> /\ attempt_results = <<>> /\ inflight = NoneVal
    /\ requests = <<>>
    /\ \E second \in PairConfigs : suspended = Some(NewCall(second))
    /\ running = 1
    /\ sink = <<>>
    /\ debug_build = TRUE
    /\ client = NoneVal /\ builder = NoneVal /\ requested = NoneVal
    /\ last_call = NoneVal /\ calls = <<>>

PairNext ==
    \/ Send
    \/ DelayElapsed
    \/ TransportSendFail
    \/ TransportRespond
    \/ BodyReadFail
    \/ BodyRead
    \/ Switch

PairSpec == PairInit /\ [][PairNext]_vars

---------------------------------------------------------------------------
(* HttpClient: URL composition.  Strings that the code takes apart (URLs,  *)
(* JSON text) are sequences of characters.                                 *)

MaxSlashes == 2

Slash == "/"

RECURSIVE Slashes(_)
Slashes(n) == IF n = 0 THEN <<>> ELSE <<Slash>> \o Slashes(n - 1)

HttpPrefix == <<"h", "t", "t", "p", ":", "/", "/">>
HttpsPrefix == <<"h", "t", "t", "p", "s", ":", "/", "/">>

(* str::starts_with *)
starts_with(s, prefix) ==
    Len(s) >= Len(prefix) /\ SubSeq(s, 1, Len(prefix)) = prefix

(* a trim that takes off one trailing character at most *)
trim_end_once(s, c) ==
    IF s # <<>> /\ s[Len(s)] = c THEN SubSeq(s, 1, Len(s) - 1) ELSE s

(* str::trim_end_matches(char): every trailing occurrence is removed *)
RECURSIVE trim_end_matches(_, _)
trim_end_matches(s, c) ==
    IF s # <<>> /\ s[Len(s)] = c
    THEN trim_end_matches(SubSeq(s, 1, Len(s) - 1), c)
    ELSE s

(* a join that leaves the path as it is *)
trim_start_never(s, c) == s

(* str::trim_start_matches(char): every leading occurrence is removed *)
RECURSIVE trim_start_matches(_, _)
trim_start_matches(s, c) ==
    IF s # <<>> /\ s[1] = c
    THEN trim_start_matches(Tail(s), c)
    ELSE s

(* a scheme test that knows http:// only *)
HasHttpScheme_HttpOnly(path) == starts_with(path, HttpPrefix)

(* `path.starts_with("http://") || path.starts_with("https://")` *)
HasHttpScheme(path) ==
    starts_with(path, HttpPrefix) \/ starts_with(path, HttpsPrefix)

(* HttpClient::build_url *)
build_url(base_url, path) ==
    IF base_url.some
    THEN IF HasHttpScheme(path)
         THEN path
         ELSE trim_end_matches(base_url.value, Slash) \o <<Slash>>
                  \o trim_start_matches(path, Slash)
    ELSE path

---------------------------------------------------------------------------
(* serde_json: the values a caller hands to json(), their compact text and *)
(* the reading of that text                                                *)

JNull == [t |-> "null"]
JBool(b) == [t |-> "bool", b |-> b]
JNum(n) == [t |-> "num", n |-> n]
JStr(s) == [t |-> "str", s |-> s]
JArr(elems) == [t |-> "arr", elems |-> elems]
JObj(members) == [t |-> "obj", members |-> members]
Member(k, v) == [key |-> k, value |-> v]
(* a value whose Serialize implementation returns an error *)
JFail == [t |-> "fail"]

Quote == "\""
Backslash == "\\"
DigitChars == <<"0", "1", "2", "3", "4", "5", "6", "7", "8", "9">>
NullText == <<"n", "u", "l", "l">>
TrueText == <<"t", "r", "u", "e">>
FalseText == <<"f", "a", "l", "s", "e">>

RECURSIVE Digits(_)
Digits(n) ==
    IF n < 10 THEN <<DigitChars[n + 1]>>
    ELSE Digits(n \div 10) \o <<DigitChars[(n % 10) + 1]>>

RECURSIVE EscapeChars(_)
EscapeChars(s) ==
    IF s = <<>> THEN <<>>
    ELSE (IF s[1] \in {Quote, Backslash} THEN <<Backslash, s[1]>> ELSE <<s[1]>>)
             \o EscapeChars(Tail(s))

WriteString(s) == <<Quote>> \o EscapeChars(s) \o <<Quote>>

RECURSIVE Serializes(_)
Serializes(v) ==
    CASE v.t = "fail" -> FALSE
      [] v.t = "arr" -> \A i \in DOMAIN v.elems : Serializes(v.elems[i])
      [] v.t = "obj" -> \A i \in DOMAIN v.members : Serializes(v.members[i].value)
      [] OTHER -> TRUE

RECURSIVE WriteValue(_)
RECURSIVE WriteElems(_)
RECURSIVE WriteMembers(_)
WriteValue(v) ==
    CASE v.t = "null" -> NullText
      [] v.t = "bool" -> IF v.b THEN TrueText ELSE FalseText
      [] v.t = "num" -> Digits(v.n)
      [] v.t = "str" -> WriteString(v.s)
      [] v.t = "arr" -> <<"[">> \o WriteElems(v.elems) \o <<"]">>
      [] v.t = "obj" -> <<"{">> \o WriteMembers(v.members) \o <<"}">>
WriteElems(elems) ==
    IF elems = <<>> THEN <<>>
    ELSE WriteValue(elems[1])
             \o (IF Len(elems) > 1 THEN <<",">> \o WriteElems(Tail(elems)) ELSE <<>>)
WriteMembers(members) ==
    IF members = <<>> THEN <<>>
    ELSE WriteString(members[1].key) \o <<":">> \o WriteValue(members[1].value)
             \o (IF Len(members) > 1 THEN <<",">> \o WriteMembers(Tail(members))
                 ELSE <<>>)

(* serde_json::to_string *)
to_string(data) ==
    IF Serializes(data) THEN Ok(WriteValue(data)) ELSE Err("Intentional failure")

Parsed(v, rest) == [ok |-> TRUE, value |-> v, rest |-> rest]
NotParsed == [ok |-> FALSE]
Rest(s, n) == SubSeq(s, n + 1, Len(s))

RECURSIVE ParseChars(_, _)
ParseChars(s, acc) ==
    IF s = <<>> THEN NotParsed
    ELSE IF s[1] = Quote THEN Parsed(acc, Tail(s))
    ELSE IF s[1] = Backslash
         THEN IF Len(s) >= 2 /\ s[2] \in {Quote, Backslash}
              THEN ParseChars(Rest(s, 2), Append(acc, s[2]))
              ELSE NotParsed
    ELSE ParseChars(Tail(s), Append(acc, s[1]))

IsDigit(c) == \E d \in DOMAIN DigitChars : DigitChars[d] = c
DigitValue(c) == (CHOOSE d \in DOMAIN DigitChars : DigitChars[d] = c) - 1

RECURSIVE ParseDigits(_, _)
ParseDigits(s, acc) ==
    IF s # <<>> /\ IsDigit(s[1])
    THEN ParseDigits(Tail(s), 10 * acc + DigitValue(s[1]))
    ELSE Parsed(JNum(acc), s)

RECURSIVE ParseValue(_)
RECURSIVE ParseElems(_, _)
RECURSIVE ParseMembers(_, _)
ParseValue(s) ==
    IF s = <<>> THEN NotParsed
    ELSE IF starts_with(s, NullText) THEN Parsed(JNull, Rest(s, Len(NullText)))
    ELSE IF starts_with(s, TrueText) THEN Parsed(JBool(TRUE), Rest(s, Len(TrueText)))
    ELSE IF starts_with(s, FalseText)
         THEN Parsed(JBool(FALSE), Rest(s, Len(FalseText)))
    ELSE IF IsDigit(s[1]) THEN ParseDigits(s, 0)
    ELSE IF s[1] = Quote
         THEN LET r == ParseChars(Tail(s), <<>>)
              IN  IF r.ok THEN Parsed(JStr(r.value), r.rest) ELSE NotParsed
    ELSE IF s[1] = "["
         THEN IF Len(s) >= 2 /\ s[2] = "]" THEN Parsed(JArr(<<>>), Rest(s, 2))
              ELSE ParseElems(Tail(s), <<>>)
    ELSE IF s[1] = "{"
         THEN IF Len(s) >= 2 /\ s[2] = "}" THEN Parsed(JObj(<<>>), Rest(s, 2))
              ELSE ParseMembers(Tail(s), <<>>)
    ELSE NotParsed
ParseElems(s, acc) ==
    LET r == ParseValue(s)
    IN  IF ~r.ok \/ r.rest = <<>> THEN NotParsed
        ELSE IF r.rest[1] = "," THEN ParseElems(Tail(r.rest), Append(acc, r.value))
        ELSE IF r.rest[1] = "]" THEN Parsed(JArr(Append(acc, r.value)), Tail(r.rest))
        ELSE NotParsed
ParseMembers(s, acc) ==
    IF s = <<>> \/ s[1] # Quote THEN NotParsed
    ELSE LET k == ParseChars(Tail(s), <<>>)
         IN  IF ~k.ok \/ k.rest = <<>> \/ k.rest[1] # ":" THEN NotParsed
             ELSE LET r == ParseValue(Tail(k.rest))
                      m == Append(acc, Member(k.value, r.value))
                  IN  IF ~r.ok \/ r.rest = <<>> THEN NotParsed
                      ELSE IF r.rest[1] = "," THEN ParseMembers(Tail(r.rest), m)
                      ELSE IF r.rest[1] = "}" THEN Parsed(JObj(m), Tail(r.rest))
                      ELSE NotParsed

(* serde_json::from_str *)
from_str(t) ==
    LET r == ParseValue(t)
    IN  IF r.ok /\ r.rest = <<>> THEN Ok(r.value) ELSE Err("invalid JSON")

ContentType == "Content-Type"
ApplicationJson == "application/json"

(* what json() leaves behind: its result, and self as it is at the return *)
JsonReturn(res, self) == [result |-> res, self |-> self]
JsonError(e) == Serialization("Failed to serialize JSON: " \o e)

(* a json() that keeps a Content-Type that is already set *)
json_KeepsContentType(b, data) ==
    LET s == to_string(data)
        h == IF ContentType \in DOMAIN b.config.headers THEN b.config.headers
             ELSE HeaderInsert(b.config.headers, ContentType, ApplicationJson)
        done == [b EXCEPT !.config.headers = h, !.config.body = BodyJson(s.value)]
    IN  IF s.ok THEN JsonReturn(Ok(done), done)
        ELSE JsonReturn(Err(JsonError(s.error)), b)

(* a json() that sets the header before it serializes *)
json_HeaderFirst(b, data) ==
    LET s == to_string(data)
        marked == header(b, ContentType, ApplicationJson)
        done == [marked EXCEPT !.config.body = BodyJson(s.value)]
    IN  IF s.ok THEN JsonReturn(Ok(done), done)
        ELSE JsonReturn(Err(JsonError(s.error)), marked)

(* RequestBuilder::json *)
json(b, data) ==
    LET s == to_string(data)
        done == [b EXCEPT
                   !.config.headers = HeaderInsert(@, ContentType, ApplicationJson),
                   !.config.body = BodyJson(s.value)]
    IN  IF s.ok THEN JsonReturn(Ok(done), done)
        ELSE JsonReturn(Err(JsonError(s.error)), b)

---------------------------------------------------------------------------
(* HttpClient *)

ClientDefaultTimeoutMs == 30000

(* HttpClient::new *)
HttpClient_new ==
    [base_url |-> NoneVal, default_headers |-> EmptyHeaders,
     default_timeout_ms |-> Some(ClientDefaultTimeoutMs), dispatch |-> FALSE]

(* HttpClient::with_dispatcher *)
HttpClient_with_dispatcher ==
    [base_url |-> NoneVal, default_headers |-> EmptyHeaders,
     default_timeout_ms |-> Some(ClientDefaultTimeoutMs), dispatch |-> TRUE]

(* HttpClient::default_timeout *)
default_timeout(c, ms) == [c EXCEPT !.default_timeout_ms = Some(ms)]

(* HttpClient::base_url *)
base_url(c, url) == [c EXCEPT !.base_url = Some(url)]

(* HttpClient::default_header *)
default_header(c, name, value) ==
    [c EXCEPT !.default_headers = HeaderInsert(@, name, value)]

(* HttpClient::create_builder *)
create_builder(c, method, path) ==
    LET b0 == NewBuilder(method, build_url(c.base_url, path))
        b1 == [b0 EXCEPT !.config.headers = HeaderExtend(@, c.default_headers)]
        b2 == IF c.default_timeout_ms.some
              THEN [b1 EXCEPT !.config.timeout_ms = c.default_timeout_ms]
              ELSE b1
    IN  IF c.dispatch THEN with_dispatcher(b2) ELSE b2

(* HttpClient::get, in the debug and in the release build *)
get(c, path, debug) ==
    IF debug
    THEN create_builder(c, "Get", path)
    ELSE retry(create_builder(c, "Get", path),
               ReleaseGetRetryCount, ReleaseGetRetryDelayMs)

(* HttpClient::post, put, delete, patch, head, options *)
request(c, method, path, debug) ==
    IF method = "Get" THEN get(c, path, debug) ELSE create_builder(c, method, path)

(* The URL inputs *)
HostA == HttpsPrefix \o <<"a", ".", "t", "e", "s", "t">>
BaseCores == {<<>>, HostA, HostA \o <<"/", "v", "1">>}
BaseUrls == {core \o Slashes(n) : core \in BaseCores, n \in 0..MaxSlashes}

Users == <<"u", "s", "e", "r", "s">>
RelativeCores == {<<>>, Users, Users \o <<"/", "1">>}
RelativePaths == {Slashes(n) \o core : core \in RelativeCores, n \in 0..MaxSlashes}
HostB == <<"b", ".", "t", "e", "s", "t">>
AbsolutePaths ==
    {HttpPrefix \o HostB \o <<"/", "x">>, HttpsPrefix \o HostB,
     HttpsPrefix \o HostB \o <<"/">>, HttpsPrefix}
OtherSchemePaths ==
    {<<"f", "t", "p", ":", "/", "/">> \o HostB,
     <<"H", "T", "T", "P", ":", "/", "/">> \o HostB}
Paths == RelativePaths \cup AbsolutePaths \cup OtherSchemePaths

(* client.base_url(url), called once while the client is configured *)
CallBaseUrl ==
    /\ ~client.value.base_url.some
    /\ \E url \in BaseUrls : client' = Some(base_url(client.value, url))
    /\ UNCHANGED <<sendVars, pairVars, debug_build, builder, requested, last_call, calls>>

(* client.get(path), client.post(path), ... *)
CallRequest(methods, paths) ==
    /\ \E method \in methods, path \in paths :
          /\ builder' = Some(request(client.value, method, path, debug_build))
          /\ requested' = Some([method |-> method, path |-> path,
                                base_url |-> client.value.base_url,
                                default_headers |-> client.value.default_headers,
                                default_timeout_ms |->
                                    client.value.default_timeout_ms])
    /\ last_call' = NoneVal
    /\ calls' = <<>>
    /\ UNCHANGED <<sendVars, pairVars, debug_build, client>>

UrlRequest == CallRequest(Methods, Paths)

(* The request side while no send() has been called *)
IdleSend ==
    /\ config = [url |-> RequestUrl, with_loader |-> FALSE, with_progress |-> FALSE,
                 with_notifications |-> FALSE, has_dispatch |-> FALSE,
                 call_name |-> NoneVal, retry_count |-> 0,
                 retry_delay_ms |-> MaxDelay,
                 method |-> "Get", headers |-> EmptyHeaders, body |-> BodyNone,
                 timeout_ms |-> Some(DefaultTimeoutMs)]
    /\ pc = "built" /\ attempt = 0 /\ last_error = NoneVal /\ result = NoneVal
    /\ events = <<>> /\ delays = <<>> /\ transport_calls = 0
    /\ transport_log = <<>> /\ attempt_results = <<>> /\ inflight = NoneVal
    /\ requests = <<>>
    /\ OneCall

UrlInit ==
    /\ IdleSend
    /\ debug_build \in BOOLEAN
    /\ client = Some(HttpClient_new)
    /\ builder = NoneVal /\ requested = NoneVal /\ last_call = NoneVal
    /\ calls = <<>>

UrlNext == CallBaseUrl \/ UrlRequest

UrlSpec == UrlInit /\ [][UrlNext]_vars

---------------------------------------------------------------------------
(* The builder chain: client.post(path) followed by setters *)

MaxCalls == 2

HeaderNames == {"Accept", "ACCEPT", ContentType}
HeaderValues == {"x", "y"}
DefaultHeaderNames == {"Accept", ContentType}
DefaultHeaderValues == {"d"}
HeaderMaps == {("Accept" :> "m"), ("accept" :> "m" @@ "X-Id" :> "1")}
Texts == {"Hello, World!"}
Binaries == {<<1, 2, 3, 4>>}
Forms == {"form"}
JsonData ==
    {JNull, JBool(TRUE), JNum(0), JNum(42), JStr(<<>>),
     JStr(<<"a", Quote, Backslash>>),
     JArr(<<>>), JArr(<<JNum(7), JStr(<<Quote>>)>>),
     JObj(<<>>),
     JObj(<<Member(<<"n", "a", "m", "e">>, JStr(<<"J">>)),
            Member(<<"a", "g", "e">>, JNum(30))>>),
     JObj(<<Member(<<"k">>, JArr(<<JBool(FALSE), JObj(<<>>)>>))>>),
     JFail,
     JObj(<<Member(<<"f", "i", "e", "l", "d">>, JFail)>>)}

(* client.default_header(name, value) *)
CallDefaultHeader ==
    /\ \E name \in DefaultHeaderNames, value \in DefaultHeaderValues :
          client' = Some(default_header(client.value, name, value))
    /\ UNCHANGED <<sendVars, pairVars, debug_build, builder, requested, last_call, calls>>

BuilderRequest == CallRequest({"Post"}, {<<Slash>> \o Users})

CanCall == builder.some /\ Len(calls) < MaxCalls

(* a method of the chain returns: `after` is self at the return, `res` the *)
(* returned value; a builder that json() did not give back is gone         *)
Called(call, after, res) ==
    /\ builder' = IF res.ok THEN Some(after) ELSE NoneVal
    /\ last_call' = Some([call |-> call, before |-> builder.value, after |-> after,
                          ok |-> res.ok,
                          error |-> IF res.ok THEN NoneVal ELSE Some(res.error)])
    /\ calls' = Append(calls, call)
    /\ UNCHANGED <<sendVars, pairVars, debug_build, client, requested>>

CallHeader ==
    /\ CanCall
    /\ \E name \in HeaderNames, value \in HeaderValues :
          LET b == header(builder.value, name, value)
          IN  Called([op |-> "header", name |-> name, value |-> value], b, Ok(b))

CallHeaders ==
    /\ CanCall
    /\ \E map \in HeaderMaps :
          LET b == headers(builder.value, map)
          IN  Called([op |-> "headers", map |-> map], b, Ok(b))

CallJson ==
    /\ CanCall
    /\ \E data \in JsonData :
          LET r == json(builder.value, data)
          IN  Called([op |-> "json", data |-> data], r.self, r.result)

CallText ==
    /\ CanCall
    /\ \E t \in Texts :
          LET b == text(builder.value, t)
          IN  Called([op |-> "text", text |-> t], b, Ok(b))

CallBinary ==
    /\ CanCall
    /\ \E d \in Binaries :
          LET b == binary(builder.value, d)
          IN  Called([op |-> "binary", bytes |-> d], b, Ok(b))

CallFormData ==
    /\ CanCall
    /\ \E f \in Forms :
          LET b == form_data(builder.value, f)
          IN  Called([op |-> "form_data", form |-> f], b, Ok(b))

BuilderInit ==
    /\ IdleSend
    /\ debug_build \in BOOLEAN
    /\ client = Some(HttpClient_new)
    /\ builder = NoneVal /\ requested = NoneVal /\ last_call = NoneVal
    /\ calls = <<>>

BuilderNext ==
    \/ CallDefaultHeader
    \/ BuilderRequest
    \/ CallHeader
    \/ CallHeaders
    \/ CallJson
    \/ CallText
    \/ CallBinary
    \/ CallFormData

BuilderSpec == BuilderInit /\ [][BuilderNext]_vars

---------------------------------------------------------------------------
(* One request from the client to its result: client.post(path), the       *)
(* setters of the chain, send(), and the retry loop of that send()         *)

ChainPaths == {<<>>, <<Slash>> \o Users}
TimeoutInputs == {5000, 60000}
ClientTimeoutInputs == {60000}
ChainRetryCounts == {1}

(* the text of a URL of the chain, as the string the request side works on *)
AsString(url) ==
    CASE url = <<>> -> ""
      [] url = <<Slash>> \o Users -> "/users"

(* the configuration and the dispatcher send(self) takes over from the builder *)
FrozenConfig(b) ==
    [url |-> AsString(b.config.url),
     with_loader |-> b.config.with_loader,
     with_progress |-> b.config.with_progress,
     with_notifications |-> b.config.with_notifications,
     has_dispatch |-> b.dispatch,
     call_name |-> b.config.call_name,
     retry_count |-> b.config.retry_count,
     retry_delay_ms |-> b.config.retry_delay_ms,
     method |-> b.config.method, headers |-> b.config.headers,
     body |-> b.config.body, timeout_ms |-> b.config.timeout_ms]

(* no send() has been called yet *)
Chaining == pc = "idle"

(* client.default_timeout(ms) *)
CallDefaultTimeout ==
    /\ Chaining
    /\ \E ms \in ClientTimeoutInputs :
          client' = Some(default_timeout(client.value, ms))
    /\ UNCHANGED <<sendVars, pairVars, debug_build, builder, requested, last_call, calls>>

ChainRequest == Chaining /\ CallRequest({"Post"}, ChainPaths)

CallWithLoader ==
    /\ CanCall
    /\ \E enabled \in BOOLEAN :
          LET b == with_loader(builder.value, enabled)
          IN  Called([op |-> "with_loader", enabled |-> enabled], b, Ok(b))

CallWithProgress ==
    /\ CanCall
    /\ \E enabled \in BOOLEAN :
          LET b == with_progress(builder.value, enabled)
          IN  Called([op |-> "with_progress", enabled |-> enabled], b, Ok(b))

CallWithNotifications ==
    /\ CanCall
    /\ \E enabled \in BOOLEAN :
          LET b == with_notifications(builder.value, enabled)
          IN  Called([op |-> "with_notifications", enabled |-> enabled], b, Ok(b))

CallCallName ==
    /\ CanCall
    /\ \E name \in {n.value : n \in CallNames \ {NoneVal}} :
          LET b == call_name(builder.value, name)
          IN  Called([op |-> "call_name", name |-> name], b, Ok(b))

CallTimeout ==
    /\ CanCall
    /\ \E ms \in TimeoutInputs :
          LET b == timeout(builder.value, ms)
          IN  Called([op |-> "timeout", ms |-> ms], b, Ok(b))

CallNoTimeout ==
    /\ CanCall
    /\ LET b == no_timeout(builder.value)
       IN  Called([op |-> "no_timeout"], b, Ok(b))

CallRetry ==
    /\ CanCall
    /\ \E count \in ChainRetryCounts, delay_ms \in RetryDelays :
          LET b == retry(builder.value, count, delay_ms)
          IN  Called([op |-> "retry", count |-> count, delay_ms |-> delay_ms], b, Ok(b))

(* builder.send(): self is moved into the future of send() *)
CallSend ==
    /\ Chaining
    /\ builder.some
    /\ config' = FrozenConfig(builder.value)
    /\ pc' = "built"
    /\ builder' = NoneVal
    /\ last_call' = Some([call |-> [op |-> "send"], before |-> builder.value,
                          after |-> builder.value, ok |-> TRUE, error |-> NoneVal])
    /\ calls' = <<>>
    /\ requested' = NoneVal
    /\ UNCHANGED <<attempt, last_error, result, events, delays, transport_calls,
                   transport_log, attempt_results, inflight, requests,
                   debug_build, client, pairVars>>

(* until send() is called the request side holds a default configuration *)
ChainInit ==
    /\ config = FrozenConfig(NewBuilder("Get", <<>>))
    /\ pc = "idle" /\ attempt = 0 /\ last_error = NoneVal /\ result = NoneVal
    /\ events = <<>> /\ delays = <<>> /\ transport_calls = 0
    /\ transport_log = <<>> /\ attempt_results = <<>> /\ inflight = NoneVal
    /\ requests = <<>>
    /\ OneCall
    /\ debug_build = TRUE
    /\ client \in {Some(HttpClient_new), Some(HttpClient_with_dispatcher)}
    /\ builder = NoneVal /\ requested = NoneVal /\ last_call = NoneVal
    /\ calls = <<>>

ChainNext ==
    \/ CallDefaultTimeout
    \/ ChainRequest
    \/ CallWithLoader
    \/ CallWithProgress
    \/ CallWithNotifications
    \/ CallCallName
    \/ CallTimeout
    \/ CallNoTimeout
    \/ CallRetry
    \/ CallHeader
    \/ CallText
    \/ CallSend
    \/ Send
    \/ DelayElapsed
    \/ TransportSendFail
    \/ TransportRespond
    \/ BodyReadFail
    \/ BodyRead

ChainSpec == ChainInit /\ [][ChainNext]_vars

---------------------------------------------------------------------------
(* Vocabulary of the properties, stated on what the transport did and on   *)
(* what send() returned.                                                   *)

Success2xx == 200..299
Client4xx == 400..499

Answered(t) == t.sent /\ t.read

(* a transport call that ended in a retryable failure: a network failure   *)
(* or a status that is neither 2xx nor 4xx                                   *)
FailedRetryably(t) ==
    \/ ~t.sent
    \/ ~t.read
    \/ (t.status \notin Success2xx /\ t.status \notin Client4xx)

(* the error kinds the retry policy names *)
NonRetryableError(e) ==
    \/ e.kind \in {"Cancelled", "InvalidUrl", "Configuration"}
    \/ (e.kind = "Http" /\ e.status \in Client4xx)

RetryableError(e) ==
    \/ e.kind \in {"Network", "Timeout", "InvalidResponse", "Serialization"}
    \/ (e.kind = "Http" /\ e.status \notin Client4xx)

Returned == pc = "done"
Attempts == Len(attempt_results)
LastAttempt == attempt_results[Attempts]

(* attempt k (counted from 0) has started *)
AttemptStarted(k) ==
    \/ Attempts > k
    \/ (attempt = k /\ pc \in {"sending", "reading"})

(* attempt k (counted from 0) has ended in a retryable error *)
AttemptFailedRetryably(k) ==
    /\ Attempts > k
    /\ ~attempt_results[k + 1].ok
    /\ RetryableError(attempt_results[k + 1].error)

RECURSIVE TotalDelay(_)
TotalDelay(ds) == IF ds = <<>> THEN 0 ELSE Head(ds).ms + TotalDelay(Tail(ds))

CountOf(ev, type) == Cardinality({i \in 1..Len(ev) : ev[i].type = type})

AllFlags ==
    /\ config.has_dispatch
    /\ config.with_loader
    /\ config.with_progress
    /\ config.with_notifications

---------------------------------------------------------------------------
(* C1: when every transport call of a send() fails with a retryable error, *)
(* the send() has made exactly retry_count + 1 transport invocations by    *)
(* the time it returns.                                                    *)
C1_ExactlyNPlusOneCalls ==
    (/\ Returned
     /\ config.url # ""
     /\ \A i \in 1..Len(transport_log) : FailedRetryably(transport_log[i]))
    => (/\ transport_calls = config.retry_count + 1
        /\ Len(transport_log) = config.retry_count + 1)

C1_Witness ==
    /\ Returned
    /\ config.retry_count = 2
    /\ transport_calls = 3
    /\ \A i \in 1..Len(transport_log) : FailedRetryably(transport_log[i])
    /\ \E i \in 1..Len(transport_log) :
           Answered(transport_log[i]) /\ transport_log[i].status = 500
    /\ \E i \in 1..Len(transport_log) : ~transport_log[i].sent

(* C2, as stated: a send() whose first attempt fails with a non-retryable  *)
(* error kind has made exactly 1 transport invocation.                     *)
C2_ExactlyOneTransportCall ==
    (/\ Returned
     /\ Attempts >= 1
     /\ ~attempt_results[1].ok
     /\ NonRetryableError(attempt_results[1].error))
    => transport_calls = 1

(* C2, amended: a first attempt that fails with a non-retryable error kind *)
(* is the only attempt: send() returns that error, no backoff delay and no *)
(* further attempt follows, and the transport was invoked once for an Http *)
(* 4xx error and not at all for InvalidUrl.                                *)
C2_OneAttemptOnly ==
    (/\ Attempts >= 1
     /\ ~attempt_results[1].ok
     /\ NonRetryableError(attempt_results[1].error))
    => (/\ Returned
        /\ Attempts = 1
        /\ delays = <<>>
        /\ result = Some(attempt_results[1])
        /\ transport_calls =
               IF attempt_results[1].error.kind = "InvalidUrl" THEN 0 ELSE 1)

C2_Witness ==
    /\ Returned
    /\ config.retry_count >= 1
    /\ config.retry_delay_ms >= 1
    /\ Attempts = 1
    /\ ~attempt_results[1].ok
    /\ attempt_results[1].error.kind = "Http"
    /\ attempt_results[1].error.status = 400
    /\ transport_calls = 1

(* C3: when the transport answers the first attempt with a 4xx status,     *)
(* send() has returned an Http error with that status after one attempt    *)
(* and without any backoff delay.                                          *)
C3_ClientErrorReturnsAtOnce ==
    (/\ Len(transport_log) >= 1
     /\ Answered(transport_log[1])
     /\ transport_log[1].status \in Client4xx)
    => (/\ Returned
        /\ result.some
        /\ ~result.value.ok
        /\ result.value.error.kind = "Http"
        /\ result.value.error.status = transport_log[1].status
        /\ transport_calls = 1
        /\ Attempts = 1
        /\ delays = <<>>)

C3_Witness ==
    /\ Returned
    /\ config.retry_count = 2
    /\ Len(transport_log) = 1
    /\ Answered(transport_log[1])
    /\ transport_log[1].status = 499
    /\ result.value.error.status = 499

(* C4: an attempt k < retry_count that fails with a retryable error leads  *)
(* to the start of attempt k + 1; and send() returns only after a success, *)
(* after a non-retryable error, or after attempt retry_count.              *)
C4_RetryableLeadsToNextAttempt ==
    /\ \A k \in 0..MaxRetry :
           (AttemptFailedRetryably(k) /\ k < config.retry_count)
               ~> AttemptStarted(k + 1)
    /\ [](Returned =>
             \/ LastAttempt.ok
             \/ NonRetryableError(LastAttempt.error)
             \/ Attempts = config.retry_count + 1)

C4_Witness ==
    /\ config.retry_count = 2
    /\ AttemptFailedRetryably(0)
    /\ AttemptFailedRetryably(1)
    /\ attempt_results[2].error.kind = "Http"
    /\ attempt = 2
    /\ pc = "sending"

C6_ReturnsOnFirstSuccess ==
    \A i \in 1..Len(transport_log) :
        (Answered(transport_log[i]) /\ transport_log[i].status \in Success2xx)
        => (/\ i = Len(transport_log)
            /\ Returned
            /\ result.some
            /\ result.value.ok
            /\ result.value.value.status = transport_log[i].status
            /\ result.value.value.body = transport_log[i].body
            /\ transport_calls = i
            /\ Len(delays) = i - 1)

C6_Witness ==
    /\ Returned
    /\ config.retry_count = 2
    /\ Len(transport_log) = 2
    /\ ~transport_log[1].sent
    /\ Answered(transport_log[2])
    /\ transport_log[2].status = 200
    /\ result.value.ok

(* C7: when all retry_count + 1 attempts fail with retryable errors,       *)
(* send() returns the error of the last attempt.                           *)
C7_ReturnsLastError ==
    (/\ Returned
     /\ Attempts = config.retry_count + 1
     /\ \A k \in 0..config.retry_count : AttemptFailedRetryably(k))
    => result = Some(LastAttempt)

C7_Witness ==
    /\ Returned
    /\ config.retry_count = 1
    /\ Attempts = 2
    /\ attempt_results[1].error.kind = "Http"
    /\ attempt_results[1].error.status = 500
    /\ attempt_results[2].error.kind = "Network"
    /\ result.value.error.kind = "Network"

(* C8: an answered transport call with a 2xx status makes its attempt      *)
(* yield a success envelope with that status; with any other status it     *)
(* yields an Http error with the same status and the raw body; send()      *)
(* never returns a success envelope whose status is outside [200,300).     *)
C8_StatusClassification ==
    /\ \A i \in 1..Len(transport_log) :
           Answered(transport_log[i]) =>
               IF transport_log[i].status \in Success2xx
               THEN /\ attempt_results[i].ok
                    /\ attempt_results[i].value.status = transport_log[i].status
                    /\ attempt_results[i].value.body = transport_log[i].body
               ELSE /\ ~attempt_results[i].ok
                    /\ attempt_results[i].error.kind = "Http"
                    /\ attempt_results[i].error.status = transport_log[i].status
                    /\ attempt_results[i].error.body = Some(transport_log[i].body)
    /\ (result.some /\ result.value.ok)
           => result.value.value.status \in Success2xx

C8_Witness ==
    /\ Returned
    /\ Len(transport_log) = 3
    /\ transport_log[1] = [sent |-> TRUE, status |-> 300, read |-> TRUE,
                           body |-> "payload", url |-> RequestUrl]
    /\ attempt_results[1].error.status = 300
    /\ Answered(transport_log[2])
    /\ transport_log[2].status = 199
    /\ Answered(transport_log[3])
    /\ transport_log[3].status = 299
    /\ result.value.ok
    /\ result.value.value.status = 299

(* C9: with with_loader set and a dispatcher attached, a send() that has   *)
(* returned has emitted exactly one EnableLoader and one DisableLoader.    *)
C9_OneLoaderPairPerSend ==
    (Returned /\ config.with_loader /\ config.has_dispatch)
    => (/\ CountOf(events, "EnableLoader") = 1
        /\ CountOf(events, "DisableLoader") = 1)

(* C10: with all three flags set, the events of a send() are ordered       *)
(* EnableLoader, the UpdateProgress events, the optional ShowNotification, *)
(* DisableLoader: nothing precedes EnableLoader, nothing follows           *)
(* DisableLoader, and no UpdateProgress follows a ShowNotification.        *)
C10_EventOrder ==
    AllFlags =>
        \A i \in 1..Len(events) :
            /\ (events[i].type = "EnableLoader") <=> (i = 1)
            /\ (events[i].type = "DisableLoader") => (i = Len(events))
            /\ \A j \in (i + 1)..Len(events) :
                   ~(/\ events[i].type = "ShowNotification"
                     /\ events[j].type = "UpdateProgress")

(* C11: with with_notifications set, one send() emits ShowNotification at  *)
(* most once, whatever the retry count and the outcomes of its attempts.   *)
C11_AtMostOneNotification ==
    config.with_notifications => CountOf(events, "ShowNotification") <= 1

---------------------------------------------------------------------------
(* URL composition (UrlSpec) *)

RecognizedSchemePrefixes == {HttpPrefix, HttpsPrefix}
IsAbsolutePath(path) == \E p \in RecognizedSchemePrefixes : starts_with(path, p)
EndsWithSlash(s) == s # <<>> /\ s[Len(s)] = Slash
StartsWithSlash(s) == s # <<>> /\ s[1] = Slash
UrlBuilt == requested.some /\ builder.some
RelativeWithBase ==
    UrlBuilt /\ requested.value.base_url.some /\ ~IsAbsolutePath(requested.value.path)

C13_ExactlyOneSlashAtSeam ==
    \A b \in BaseCores, p \in RelativeCores, i \in 0..1, j \in 0..1 :
        /\ UrlBuilt
        /\ requested.value.base_url = Some(b \o Slashes(i))
        /\ requested.value.path = Slashes(j) \o p
        => builder.value.config.url = b \o <<Slash>> \o p

C13_Witness ==
    /\ UrlBuilt
    /\ requested.value.base_url = Some(HostA \o <<Slash>>)
    /\ requested.value.path = <<Slash>> \o Users
    /\ builder.value.config.url = HostA \o <<Slash>> \o Users

(* C14 as stated: exactly one trailing slash of the base and exactly one   *)
(* leading slash of the path are trimmed, so further slashes stay.         *)
trim_start_once(s, c) == IF s # <<>> /\ s[1] = c THEN Tail(s) ELSE s
C14_TrimsExactlyOne ==
    RelativeWithBase =>
        builder.value.config.url =
            trim_end_once(requested.value.base_url.value, Slash) \o <<Slash>>
                \o trim_start_once(requested.value.path, Slash)

(* C14: every trailing slash of the base and every leading slash of the    *)
(* path is trimmed: the URL is the base up to its last non-slash           *)
(* character, one '/', and the path from its first non-slash character.    *)
C14_TrimsAllSlashes ==
    RelativeWithBase =>
        \E i \in 0..Len(requested.value.base_url.value),
           j \in 0..Len(requested.value.path) :
            LET b == SubSeq(requested.value.base_url.value, 1, i)
                p == SubSeq(requested.value.path, j + 1, Len(requested.value.path))
            IN  /\ requested.value.base_url.value
                       = b \o Slashes(Len(requested.value.base_url.value) - i)
                /\ requested.value.path = Slashes(j) \o p
                /\ ~EndsWithSlash(b) /\ ~StartsWithSlash(p)
                /\ builder.value.config.url = b \o <<Slash>> \o p

C14_Witness ==
    /\ RelativeWithBase
    /\ requested.value.base_url = Some(HostA \o Slashes(2))
    /\ requested.value.path = Slashes(2) \o Users
    /\ builder.value.config.url = HostA \o <<Slash>> \o Users

---------------------------------------------------------------------------
(* The builder chain (BuilderSpec) *)

LastCallWas(op) == last_call.some /\ last_call.value.call.op = op
Headers == builder.value.config.headers
Body == builder.value.config.body
Max(S) == CHOOSE x \in S : \A y \in S : y <= x

(* C15: after a successful json(data) the header Content-Type is           *)
(* application/json, whatever it was before, and the body is the Json      *)
(* variant whose text reads back as data.                                  *)
C15_JsonSetsHeaderAndBody ==
    LastCallWas("json") /\ last_call.value.ok =>
        /\ builder.some
        /\ HeaderGet(Headers, ContentType) = Some(ApplicationJson)
        /\ Body.variant = "Json"
        /\ from_str(Body.json) = Ok(last_call.value.call.data)

C15_Witness ==
    /\ LastCallWas("json") /\ last_call.value.ok
    /\ HeaderGet(last_call.value.before.config.headers, ContentType) = Some("x")
    /\ last_call.value.call.data = JStr(<<"a", Quote, Backslash>>)
    /\ HeaderGet(Headers, ContentType) = Some(ApplicationJson)
    /\ from_str(Body.json) = Ok(last_call.value.call.data)

(* C16: a json(data) whose serialization fails returns a Serialization     *)
(* error and gives no builder back; at its return self has the headers and *)
(* the body it had at the call, and no transport call and no sink event    *)
(* has occurred.                                                           *)
C16_JsonFailureChangesNothing ==
    LastCallWas("json") /\ ~last_call.value.ok =>
        /\ last_call.value.error.value.kind = "Serialization"
        /\ ~builder.some
        /\ last_call.value.after.config.headers = last_call.value.before.config.headers
        /\ last_call.value.after.config.body = last_call.value.before.config.body
        /\ transport_calls = 0
        /\ events = <<>>

C16_Witness ==
    /\ LastCallWas("json") /\ ~last_call.value.ok
    /\ last_call.value.call.data = JObj(<<Member(<<"f", "i", "e", "l", "d">>, JFail)>>)
    /\ last_call.value.error.value.kind = "Serialization"
    /\ last_call.value.before.config.body = BodyText("Hello, World!")
    /\ last_call.value.after = last_call.value.before

(* C17: a header written under one spelling is read under every spelling   *)
(* of its name, and the headers hold one entry per name whatever the       *)
(* letter case of the writes.                                              *)
to_lowercase(name) ==
    CASE name \in {"Accept", "ACCEPT", "accept"} -> "accept"
      [] name = ContentType -> "content-type"
      [] name = "X-Id" -> "x-id"
C17_CaseInsensitiveHeaders ==
    builder.some =>
        /\ LastCallWas("header") =>
               \A name \in HeaderNames :
                   to_lowercase(name) = to_lowercase(last_call.value.call.name)
                       => HeaderGet(Headers, name) = Some(last_call.value.call.value)
        /\ \A n1, n2 \in DOMAIN Headers :
               to_lowercase(n1) = to_lowercase(n2) => n1 = n2

(* C18: a builder starts with the default headers of its client, and for   *)
(* every name the value in the request configuration is the one of the     *)
(* last write to that name: a default of the client, then header(),        *)
(* headers() and json() in the order of the calls.                         *)
WriteOf(call) ==
    CASE call.op = "header" -> (call.name :> call.value)
      [] call.op = "headers" -> call.map
      [] call.op = "json" -> (ContentType :> ApplicationJson)
      [] OTHER -> EmptyHeaders
Writes == <<requested.value.default_headers>> \o [i \in DOMAIN calls |-> WriteOf(calls[i])]
WritesTo(name) == {i \in DOMAIN Writes : name \in DOMAIN Writes[i]}
AllHeaderNames == HeaderNames \cup DefaultHeaderNames \cup UNION {DOMAIN m : m \in HeaderMaps}
C18_DefaultsThenLastWriteWins ==
    builder.some =>
        /\ calls = <<>> => Headers = requested.value.default_headers
        /\ \A name \in AllHeaderNames :
               HeaderGet(Headers, name) =
                   IF WritesTo(name) = {} THEN NoneVal
                   ELSE Some(Writes[Max(WritesTo(name))][name])

C18_Witness ==
    /\ builder.some
    /\ HeaderGet(requested.value.default_headers, "Accept") = Some("d")
    /\ calls = <<[op |-> "headers", map |-> ("Accept" :> "m")],
                 [op |-> "header", name |-> "Accept", value |-> "y"]>>
    /\ HeaderGet(Headers, "Accept") = Some("y")

(* C19: the body of a builder is None when no body setter was called on    *)
(* it, and otherwise the one variant set by the last body setter called.   *)
BodySetters == {"json", "text", "binary", "form_data"}
BodyCalls == {i \in DOMAIN calls : calls[i].op \in BodySetters}
BodySetBy(call, body) ==
    CASE call.op = "text" -> body = BodyText(call.text)
      [] call.op = "binary" -> body = BodyBinary(call.bytes)
      [] call.op = "form_data" -> body = BodyFormData(call.form)
      [] call.op = "json" -> body.variant = "Json" /\ from_str(body.json) = Ok(call.data)
C19_LastBodySetterWins ==
    builder.some =>
        /\ Body.variant \in {"None", "Text", "Json", "FormData", "Binary"}
        /\ IF BodyCalls = {} THEN Body = BodyNone
           ELSE BodySetBy(calls[Max(BodyCalls)], Body)

C19_Witness ==
    /\ builder.some
    /\ calls = <<[op |-> "json", data |-> JNum(42)], [op |-> "text", text |-> "Hello, World!"]>>
    /\ Body = BodyText("Hello, World!")

---------------------------------------------------------------------------
(* Panics (WideSpec) *)

(* C20: send() never panics, whatever the retry count, the retry delay and *)
(* the outcomes of the transport.                                          *)
C20_NeverPanics == pc # "panicked"

---------------------------------------------------------------------------
(* One send(): URL check, progress, notifications, what the transport gets *)

IsProgress(e) == e.type = "UpdateProgress"
IsNotification(e) == e.type = "ShowNotification"
ProgressValues ==
    LET p == SelectSeq(events, IsProgress) IN [i \in DOMAIN p |-> p[i].value]
Notifications == SelectSeq(events, IsNotification)
LastNotification == Notifications[Len(Notifications)]
RECURSIVE Repeat(_, _)
Repeat(s, n) == IF n = 0 THEN <<>> ELSE s \o Repeat(s, n - 1)
InFlight == pc \in {"sending", "reading"}
BetweenAttempts == pc \in {"delay", "done"}

(* C21: a send() with an empty URL makes one attempt, which fails with     *)
(* InvalidUrl before any transport call; send() returns that error with no *)
(* backoff delay and no further attempt, whatever the retry count.         *)
C21_EmptyUrlReturnsInvalidUrl ==
    (config.url = "" /\ pc # "built") =>
        /\ pc = "done"
        /\ result = Some(Err(InvalidUrl("")))
        /\ transport_calls = 0 /\ requests = <<>>
        /\ delays = <<>>
        /\ Attempts = 1

C21_Witness ==
    /\ config.url = "" /\ config.retry_count = MaxRetry
    /\ pc = "done"
    /\ result = Some(Err(InvalidUrl("")))
    /\ transport_calls = 0

(* C22: with with_progress set and a dispatcher attached, every attempt    *)
(* that calls the transport emits UpdateProgress 0.0, 0.5 and, when the    *)
(* call has completed, 1.0, in this order, whether it succeeded or failed. *)
C22_ProgressPerAttempt ==
    (config.with_progress /\ config.has_dispatch /\ config.url # ""
         /\ BetweenAttempts)
        => ProgressValues = Repeat(<<0, 5, 10>>, Attempts)

(* C23: with with_notifications set and a dispatcher attached, a send()    *)
(* that has returned emitted a ShowNotification, and the last one tells    *)
(* the returned outcome: the success text with the status of the returned  *)
(* response, or the failure text with the returned error.                  *)
C23_LastNotificationTellsOutcome ==
    (config.with_notifications /\ config.has_dispatch /\ Returned) =>
        /\ Notifications # <<>>
        /\ LastNotification.message =
               IF result.value.ok
               THEN "Request completed successfully ("
                        \o ToString(result.value.value.status) \o ")"
               ELSE "Request failed: " \o Display(result.value.error)

C23_Witness ==
    /\ config.with_notifications /\ config.has_dispatch /\ Returned
    /\ Attempts = 2
    /\ ~attempt_results[1].ok /\ attempt_results[1].error.kind = "Network"
    /\ ~result.value.ok /\ result.value.error.kind = "Http"
    /\ Len(Notifications) = 2
    /\ LastNotification.message = "Request failed: " \o Display(result.value.error)

(* C24: every request handed to the transport carries the configured       *)
(* timeout_ms, and no attempt ends with a Timeout error of the core.       *)
C24_TimeoutPassedToTransport ==
    /\ \A i \in DOMAIN requests :
           /\ "timeout_ms" \in DOMAIN requests[i]
           /\ requests[i].timeout_ms = config.timeout_ms
    /\ \A i \in DOMAIN attempt_results :
           ~attempt_results[i].ok => attempt_results[i].error.kind # "Timeout"

(* C26: the result of send() carries the call name of the configuration:   *)
(* the returned response and the returned error alike.                     *)
CallNameOf(r) == IF "call_name" \in DOMAIN r THEN r.call_name ELSE NoneVal
C26_CallNameEchoed ==
    Returned =>
        CallNameOf(IF result.value.ok THEN result.value.value ELSE result.value.error)
            = config.call_name

(* C28: the attempts of one send() follow one another: at most one         *)
(* transport call is in flight, and while a backoff delay runs or after    *)
(* send() has returned every attempt started so far has its transport      *)
(* call completed, its result classified and its events emitted.           *)
C28_AttemptsSequential ==
    /\ transport_calls = Len(requests)
    /\ transport_calls - Len(transport_log) = IF InFlight THEN 1 ELSE 0
    /\ InFlight => Attempts = attempt /\ Len(delays) = attempt
    /\ pc = "delay" => Attempts = attempt /\ Len(delays) = attempt
    /\ Returned => Attempts = attempt + 1 /\ Len(delays) = attempt
    /\ (config.with_loader /\ config.has_dispatch) =>
           /\ CountOf(events, "EnableLoader") - CountOf(events, "DisableLoader")
                  = IF InFlight THEN 1 ELSE 0
           /\ BetweenAttempts => CountOf(events, "DisableLoader") = Attempts

C28_Witness ==
    /\ pc = "delay" /\ attempt = 2
    /\ transport_calls = 2 /\ Len(transport_log) = 2 /\ Attempts = 2
    /\ config.with_loader /\ config.has_dispatch
    /\ CountOf(events, "DisableLoader") = 2

---------------------------------------------------------------------------
(* One request from the client to its result (ChainSpec) *)

SendCalled == pc = "idle" /\ pc' = "built"
ConfigOfBuilder == builder.value.config
ConfigSetters ==
    {"with_loader", "with_progress", "with_notifications", "call_name",
     "timeout", "no_timeout", "retry"}
FieldsOf(op) ==
    CASE op \in {"with_loader", "with_progress", "with_notifications"} -> {op}
      [] op = "call_name" -> {"call_name"}
      [] op \in {"timeout", "no_timeout"} -> {"timeout_ms"}
      [] op = "retry" -> {"retry_count", "retry_delay_ms"}
      [] OTHER -> {}
ValueGiven(call, f) ==
    CASE call.op \in {"with_loader", "with_progress", "with_notifications"}
             -> call.enabled
      [] call.op = "call_name" -> Some(call.name)
      [] call.op = "timeout" -> Some(call.ms)
      [] call.op = "no_timeout" -> NoneVal
      [] call.op = "retry" -> IF f = "retry_count" THEN call.count ELSE call.delay_ms
CallsSetting(f) == {i \in DOMAIN calls : f \in FieldsOf(calls[i].op)}

(* C25: the client's default timeout is 30000 at its construction; a       *)
(* builder has the default timeout of its client until timeout(ms) or      *)
(* no_timeout() is called on it, then Some(ms) or none as the last of      *)
(* these calls says; send() takes over the value the builder has.          *)
C25_TimeoutLastCallWins ==
    /\ client.value.default_timeout_ms = Some(ClientDefaultTimeoutMs)
    /\ [](builder.some =>
            ConfigOfBuilder.timeout_ms =
                IF CallsSetting("timeout_ms") = {}
                THEN requested.value.default_timeout_ms
                ELSE ValueGiven(calls[Max(CallsSetting("timeout_ms"))], "timeout_ms"))
    /\ [][SendCalled => config'.timeout_ms = ConfigOfBuilder.timeout_ms]_vars

C25_Witness ==
    /\ builder.some
    /\ requested.value.default_timeout_ms = Some(60000)
    /\ calls = <<[op |-> "timeout", ms |-> 5000], [op |-> "no_timeout"]>>
    /\ ConfigOfBuilder.timeout_ms = NoneVal

(* C27: a configuration setter gives its fields the values of its          *)
(* arguments and leaves every other field of the configuration, and the    *)
(* dispatcher, as they were; after a chain of setters each field has the   *)
(* last value given for it, or its default when none was given.            *)
C27_SettersChangeOnlyTheirFields ==
    /\ (last_call.some /\ last_call.value.call.op \in ConfigSetters) =>
           LET c == last_call.value
           IN  /\ c.after.dispatch = c.before.dispatch
               /\ \A f \in DOMAIN c.before.config :
                      c.after.config[f] =
                          IF f \in FieldsOf(c.call.op) THEN ValueGiven(c.call, f)
                          ELSE c.before.config[f]
    /\ builder.some =>
           \A f \in {"with_loader", "with_progress", "with_notifications",
                     "call_name", "retry_count", "retry_delay_ms"} :
               ConfigOfBuilder[f] =
                   IF CallsSetting(f) = {} THEN DefaultConfig[f]
                   ELSE ValueGiven(calls[Max(CallsSetting(f))], f)

C27_Witness ==
    /\ builder.some
    /\ calls = <<[op |-> "with_progress", enabled |-> TRUE],
                 [op |-> "retry", count |-> 1, delay_ms |-> MaxDelay]>>
    /\ ConfigOfBuilder.with_progress /\ ~ConfigOfBuilder.with_loader
    /\ ConfigOfBuilder.retry_count = 1 /\ ConfigOfBuilder.retry_delay_ms = MaxDelay
    /\ ConfigOfBuilder.timeout_ms = Some(ClientDefaultTimeoutMs)

(* C29: once send() has been called no step changes the configuration,     *)
(* and every request handed to the transport has the method, the URL, the  *)
(* headers and the body of that configuration.                             *)
C29_ConfigFrozen ==
    [][pc # "idle" =>
          /\ config' = config
          /\ \A i \in DOMAIN requests' :
                 /\ requests'[i].method = config.method
                 /\ requests'[i].url = config.url
                 /\ requests'[i].headers = config.headers
                 /\ requests'[i].body = config.body]_vars

C29_Witness ==
    /\ pc = "done"
    /\ config.headers = ("Accept" :> "x")
    /\ config.retry_count = 1
    /\ Len(requests) = 2
    /\ requests[1] = requests[2]
    /\ requests[2].headers = config.headers

---------------------------------------------------------------------------
(* Termination (FairSpec) *)

(* C30: when the transport and the timers complete, send() returns: it     *)
(* produces one result, a response or an error, after at most              *)
(* retry_count + 1 attempts, and the result does not change afterwards.    *)
C30_TerminatesWithOneResult ==
    /\ <>Returned
    /\ [](result.some <=> Returned)
    /\ [](Attempts <= config.retry_count + 1)
    /\ [][result.some => result' = result]_vars

C30_Witness ==
    /\ Returned
    /\ config.retry_count = MaxRetry
    /\ Attempts = MaxRetry + 1
    /\ result.some /\ ~result.value.ok

---------------------------------------------------------------------------
(* Width of the backoff multiplication (WideSpec) *)

(* C32: every backoff delay is the mathematical product                    *)
(* retry_delay_ms * k of the delay and the attempt it precedes: the        *)
(* multiplication neither wraps around nor aborts send().                  *)
C32_DelayIsMathematicalProduct ==
    /\ pc # "panicked"
    /\ \A i \in DOMAIN delays :
           delays[i].ms = config.retry_delay_ms * delays[i].before_attempt

---------------------------------------------------------------------------
(* Statuses outside 2xx and 4xx *)

(* an attempt that ended in an Http error whose status is neither 2xx nor  *)
(* 4xx (1xx, 3xx, 5xx)                                                     *)
OtherStatusError(r) ==
    /\ ~r.ok
    /\ r.error.kind = "Http"
    /\ r.error.status \notin Success2xx
    /\ r.error.status \notin Client4xx

(* C33: an Http error with a 1xx, 3xx or 5xx status is retryable: while    *)
(* retries are left it is followed by a backoff delay and a next attempt,  *)
(* and on the last attempt it is the error send() returns.                 *)
C33_OtherStatusesRetried ==
    \A k \in 0..(Attempts - 1) :
        OtherStatusError(attempt_results[k + 1]) =>
            IF k < config.retry_count
            THEN /\ attempt > k
                 /\ Len(delays) > k
                 /\ Returned => Attempts > k + 1
            ELSE /\ Returned
                 /\ Attempts = config.retry_count + 1
                 /\ result.value = attempt_results[k + 1]

C33_Witness ==
    /\ Returned
    /\ config.retry_count = 2
    /\ Attempts = 3
    /\ \A k \in 1..3 : OtherStatusError(attempt_results[k])
    /\ attempt_results[1].error.status = 199
    /\ attempt_results[2].error.status = 300
    /\ attempt_results[3].error.status = 500
    /\ result.value = attempt_results[3]

---------------------------------------------------------------------------
(* Loader events *)

IsLoader(e) == e.type \in {"EnableLoader", "DisableLoader"}
LoaderEvents == SelectSeq(events, IsLoader)

(* C34: the loader events of one send() alternate, starting with           *)
(* EnableLoader: the loader is on only while an attempt is in flight, and  *)
(* every EnableLoader has its DisableLoader once the attempt has ended,    *)
(* whether it succeeded, failed or was refused for its URL, so that none   *)
(* is outstanding when send() returns.                                     *)
C34_LoaderBalanced ==
    /\ \A i \in DOMAIN LoaderEvents :
           LoaderEvents[i].type =
               IF i % 2 = 1 THEN "EnableLoader" ELSE "DisableLoader"
    /\ (Returned \/ pc = "delay") => Len(LoaderEvents) % 2 = 0
    /\ (config.with_loader /\ config.has_dispatch) =>
           Len(LoaderEvents) = Attempts * 2 + (IF InFlight THEN 1 ELSE 0)

C34_Witness ==
    /\ Returned
    /\ config.url = ""
    /\ ~result.value.ok
    /\ result.value.error.kind = "InvalidUrl"
    /\ LoaderEvents = <<EnableLoader, DisableLoader>>

---------------------------------------------------------------------------
(* Error kinds of send() *)

ProducedErrorKinds == {"Network", "Http", "InvalidUrl"}

(* the errors of the attempts made so far and of the result, if any *)
ErrorsProduced ==
    {attempt_results[i].error :
         i \in {j \in DOMAIN attempt_results : ~attempt_results[j].ok}}
    \cup (IF last_error.some THEN {last_error.value} ELSE {})
    \cup (IF result.some /\ ~result.value.ok THEN {result.value.error} ELSE {})

(* C36: an attempt fails only with Network, Http or InvalidUrl, and so     *)
(* does send(); a transport call that failed while sending the request or  *)
(* while reading the body is reported as Network.                          *)
C36_OnlyThreeErrorKinds ==
    /\ \A e \in ErrorsProduced : e.kind \in ProducedErrorKinds
    /\ Len(transport_log) <= Attempts
    /\ \A i \in DOMAIN transport_log :
           ~Answered(transport_log[i]) =>
               /\ ~attempt_results[i].ok
               /\ attempt_results[i].error.kind = "Network"

C36_Witness ==
    /\ Returned
    /\ Attempts = 3
    /\ ~transport_log[1].sent
    /\ transport_log[2].sent /\ ~transport_log[2].read
    /\ ~result.value.ok
    /\ result.value.error.kind = "Network"
    /\ {attempt_results[i].error.kind : i \in 1..2} = {"Network"}

---------------------------------------------------------------------------
(* The fallback after the loop *)

UnknownError == Network("Unknown error")

(* send() has left its loop by its end, not by a return inside it *)
LoopRanOut ==
    /\ Returned
    /\ ~LastAttempt.ok
    /\ ~IsNonRetryable(LastAttempt.error)

(* C38: the loop of send() runs attempt 0 at least, so when it ends        *)
(* without having returned, an error has been recorded and that error is   *)
(* the result: the "Unknown error" fallback is never what send() returns.  *)
C38_FallbackUnreachable ==
    /\ Returned => Attempts >= 1
    /\ (Attempts >= 1 /\ ~attempt_results[1].ok) => last_error.some
    /\ LoopRanOut =>
           /\ last_error.some
           /\ result.value = Err(last_error.value)
           /\ result.value = LastAttempt
    /\ (Returned /\ ~result.value.ok) => result.value.error # UnknownError

C38_Witness ==
    /\ LoopRanOut
    /\ config.retry_count = 0
    /\ Attempts = 1
    /\ last_error.some
    /\ result.value.error = Network("Request failed: TransportError")

---------------------------------------------------------------------------
(* Body setters and the headers (BuilderSpec) *)

PlainBodySetters == {"text", "binary", "form_data"}

(* C37: text(), binary() and form_data() change the body and nothing else: *)
(* the headers are the ones the builder had before the call, so the        *)
(* Content-Type: application/json that an earlier json() has set is still  *)
(* there once one of them has replaced the body.                           *)
C37_BodySettersKeepHeaders ==
    /\ (last_call.some /\ last_call.value.call.op \in PlainBodySetters) =>
           /\ last_call.value.ok
           /\ last_call.value.after.config.headers
                  = last_call.value.before.config.headers
           /\ last_call.value.after
                  = [last_call.value.before EXCEPT
                         !.config.body = last_call.value.after.config.body]
    /\ builder.some =>
           \A i \in DOMAIN calls :
               (/\ calls[i].op = "json"
                /\ i < Len(calls)
                /\ \A j \in (i + 1)..Len(calls) : calls[j].op \in PlainBodySetters)
               => /\ HeaderGet(Headers, ContentType) = Some(ApplicationJson)
                  /\ Body.variant \in {"Text", "Binary", "FormData"}

C37_Witness ==
    /\ builder.some
    /\ LastCallWas("text")
    /\ Len(calls) = 2 /\ calls[1].op = "json"
    /\ Body.variant = "Text"
    /\ HeaderGet(Headers, ContentType) = Some(ApplicationJson)
    /\ HeaderGet(last_call.value.before.config.headers, ContentType)
           = Some(ApplicationJson)

---------------------------------------------------------------------------
(* What the flags, the call name and the sink can influence *)

(* cfg with every flag off, no call name and no sink: the configurations   *)
(* that differ in these five settings only share this one                  *)
Plain(cfg) ==
    [cfg EXCEPT !.with_loader = FALSE, !.with_progress = FALSE,
                !.with_notifications = FALSE, !.call_name = NoneVal,
                !.has_dispatch = FALSE]

(* what this send() has done: transport calls, backoff delays, result *)
Observed ==
    [transport_calls |-> transport_calls, delays |-> delays, result |-> result]

(* an outcome without the call name the response envelope carries *)
WithoutCallName(o) ==
    IF o.result.some /\ o.result.value.ok
    THEN [o EXCEPT !.result.value.value.call_name = NoneVal]
    ELSE o

(* each class of event is emitted only with its flag and a sink *)
EventsGated ==
    /\ ~config.has_dispatch => events = <<>>
    /\ ~config.with_loader => LoaderEvents = <<>>
    /\ ~config.with_progress => ProgressValues = <<>>
    /\ ~config.with_notifications => Notifications = <<>>

(* C35 as stated: with_loader, with_progress, with_notifications, the call *)
(* name and the sink have no influence on the transport calls, the delays  *)
(* and the result: a send() that has returned has done what the send()     *)
(* with none of them set does on the same transport outcomes; and events   *)
(* are emitted only with their flag and a sink.                            *)
C35_FlagsDoNotInfluenceOutcome ==
    /\ EventsGated
    /\ Returned =>
           SendOutcome(Plain(config), debug_build, transport_log) = Observed

(* C35: the same, the result being compared apart from the call name that  *)
(* a successful response carries.                                          *)
C35_FlagsInfluenceCallNameOnly ==
    /\ EventsGated
    /\ Returned =>
           /\ SendOutcome(config, debug_build, transport_log) = Observed
           /\ WithoutCallName(SendOutcome(Plain(config), debug_build,
                                          transport_log))
                  = WithoutCallName(Observed)

C35_Witness ==
    /\ Returned
    /\ AllFlags /\ config.call_name = Some("create_user")
    /\ config.retry_count = 2
    /\ Attempts = 3
    /\ result.value.ok
    /\ Len(events) > 3
    /\ SendOutcome(Plain(config), debug_build, transport_log).result.value.value
           = [result.value.value EXCEPT !.call_name = NoneVal]

---------------------------------------------------------------------------
(* Two send() calls at once (PairSpec) *)

CallIds == {1, 2}
LocalsOf(c) == IF c = running THEN Locals ELSE suspended.value

(* the events of call c among those the dispatcher received, in the order  *)
(* it received them                                                        *)
SinkOf(c) ==
    LET From(e) == e.call = c
        own == SelectSeq(sink, From)
    IN  [i \in DOMAIN own |-> own[i].event]

(* C31: under every interleaving of two send() calls, the transport calls, *)
(* the attempts, the backoff delays and the result of each call are those  *)
(* that send() makes of the call's own configuration and of the outcomes   *)
(* the transport gave to that call, and the dispatcher has received each   *)
(* call's events in the order the call emitted them.                       *)
C31_CallsIndependent ==
    suspended.some =>
        \A c \in CallIds :
            LET own == LocalsOf(c)
            IN  /\ SinkOf(c) = own.events
                /\ own.pc = "done" =>
                       /\ SendOutcome(own.config, debug_build, own.transport_log)
                              = [transport_calls |-> own.transport_calls,
                                 delays |-> own.delays,
                                 result |-> own.result]
                       /\ Len(own.attempt_results) = Len(own.delays) + 1

C31_Witness ==
    /\ suspended.some
    /\ \A c \in CallIds : LocalsOf(c).pc = "done"
    /\ LocalsOf(1).config.retry_count = 1 /\ Len(LocalsOf(1).delays) = 1
    /\ LocalsOf(2).config.retry_count = 1 /\ Len(LocalsOf(2).delays) = 0
    /\ ~LocalsOf(1).result.value.ok
    /\ LocalsOf(2).result.value.ok
    /\ Len(sink) = 3
    /\ sink[1].call = 1 /\ sink[2].call = 2 /\ sink[3].call = 1

====
